---- MODULE Spec2Model ----
(***************************************************************************)
(* Tale store and tale controllers of the children's-story backend.        *)
(*                                                                         *)
(* The store is the Mongoose model Tale (models/Tale.js); the operations   *)
(* are the Express handlers of controllers/tales.js, wired by              *)
(* routes/tales.js.  A handler that awaits the store twice (updateTale,    *)
(* deleteTale, likeTale) is two steps, one per await, so that requests     *)
(* interleave exactly where the event loop lets them.                      *)
(***************************************************************************)
EXTENDS Integers, Sequences, FiniteSets, TLC

\* ------------------------------------------------------------------------
\* Bounds of the model
\* ------------------------------------------------------------------------
MaxTales == 1
MaxPending == 2
MaxLikeSaves == 3
MaxOwnerOps == 1

\* ------------------------------------------------------------------------
\* Identities
\* ------------------------------------------------------------------------
Users == {"A", "B"}
Anonymous == "anonymous"
Callers == Users \cup {Anonymous}
\* the value of req.user when no middleware has set it
Undefined == "undefined"

TaleIds == 1..MaxTales
Slots == 1..MaxPending

\* ------------------------------------------------------------------------
\* Strings: a string is known by its number of non-blank characters (core)
\* and of surrounding blanks (pad); trim removes the surrounding blanks.
\* ------------------------------------------------------------------------
Str(pad, core) == [pad |-> pad, core |-> core]
StrLen(s) == s.pad + s.core
Trim(s) == [pad |-> 0, core |-> s.core]

\* ------------------------------------------------------------------------
\* Schema (models/Tale.js)
\* ------------------------------------------------------------------------
TitleMaxLength == 100
AgeRangeEnum == {"2-4", "5-7", "8-10", "11-13"}
TopicEnum == {"adventure", "fantasy", "animals", "friendship", "nature",
              "space", "science", "history", "sports"}
SchemaPaths == {"title", "content", "ageRange", "topic", "author",
                "isPublic", "likes", "likedBy"}
RequiredPaths == {"title", "content", "ageRange", "topic", "author"}
StringPaths == {"title", "content"}

\* the setters of a path, run on create and on update: trim on the strings
CastPath(f, val) == IF f \in StringPaths THEN Trim(val) ELSE val

\* the validators of one path on a value that is present
ValidatePath(f, val) ==
    CASE f = "title"    -> StrLen(val) > 0 /\ StrLen(val) <= TitleMaxLength
      [] f = "content"  -> StrLen(val) > 0
      [] f = "ageRange" -> val \in AgeRangeEnum
      [] f = "topic"    -> val \in TopicEnum
      [] OTHER          -> TRUE

\* document validation of Tale.create: every required path present, every
\* present path valid
ValidateDoc(fields) ==
    /\ RequiredPaths \subseteq DOMAIN fields
    /\ \A f \in DOMAIN fields : ValidatePath(f, CastPath(f, fields[f]))

\* mutant: findByIdAndUpdate without runValidators
UpdateValidatorsOff(patch) == TRUE

\* update validators (runValidators: true): the paths of the update only
UpdateValidators(patch) ==
    \A f \in DOMAIN patch \cap SchemaPaths :
        ValidatePath(f, CastPath(f, patch[f]))

\* ------------------------------------------------------------------------
\* Sequence helpers (Array.prototype.indexOf / splice)
\* ------------------------------------------------------------------------
SeqToSet(s) == {s[i] : i \in DOMAIN s}
Max(a, b) == IF a >= b THEN a ELSE b
\* index of the first occurrence, 0 when absent (JavaScript's -1)
IndexOf(s, x) ==
    IF x \in SeqToSet(s)
    THEN CHOOSE i \in DOMAIN s : s[i] = x /\ \A j \in 1..(i - 1) : s[j] # x
    ELSE 0
\* splice(i, 1)
RemoveAt(s, i) == [j \in 1..(Len(s) - 1) |-> IF j < i THEN s[j] ELSE s[j + 1]]

\* ------------------------------------------------------------------------
\* Request inputs
\* ------------------------------------------------------------------------
PaddedTitle == Str(2, 100)
LongTitle == Str(0, 101)
BlankTitle == Str(3, 0)
SomeContent == Str(1, 20)

\* request bodies of POST /tales
CreateBodies ==
    { [title |-> PaddedTitle, content |-> SomeContent, ageRange |-> "5-7",
       topic |-> "space"],
      [title |-> PaddedTitle, content |-> SomeContent, ageRange |-> "5-7",
       topic |-> "space", isPublic |-> TRUE, likes |-> 7, author |-> "B"],
      [content |-> SomeContent, ageRange |-> "5-7", topic |-> "space"],
      [title |-> BlankTitle, content |-> SomeContent, ageRange |-> "5-7",
       topic |-> "space"],
      [title |-> LongTitle, content |-> SomeContent, ageRange |-> "5-7",
       topic |-> "space"],
      [title |-> PaddedTitle, ageRange |-> "5-7", topic |-> "space"],
      [title |-> PaddedTitle, content |-> SomeContent, ageRange |-> "5-7",
       topic |-> "horror", isPublic |-> TRUE],
      [title |-> PaddedTitle, content |-> SomeContent, ageRange |-> "14-16",
       topic |-> "space"],
      [title |-> PaddedTitle, content |-> SomeContent, ageRange |-> "5-7"],
      [title |-> PaddedTitle, content |-> SomeContent, topic |-> "space"] }

\* request bodies of PATCH /tales/:id
Patches ==
    { [isPublic |-> TRUE],
      [isPublic |-> FALSE],
      [title |-> PaddedTitle, topic |-> "space"],
      [title |-> LongTitle],
      [title |-> PaddedTitle, topic |-> "horror"],
      [ageRange |-> "14-16", isPublic |-> TRUE],
      [author |-> "B"],
      [likes |-> 0] }

\* ------------------------------------------------------------------------
\* State
\* ------------------------------------------------------------------------
VARIABLES
    tales,      \* the collection: _id -> stored document
    nextId,     \* the next fresh _id (ObjectIds are never reused)
    pending,    \* slot -> a handler suspended at its second await, or Idle
    last,       \* the step just taken and the response it sent, if any
    deleted,    \* history: the ids whose deleteOne has succeeded
    creator,    \* history: _id -> the identity that created the tale
    solo        \* history: a run of toggles by one user with nothing between

vars == <<tales, nextId, pending, last, deleted, creator, solo>>

Idle == [op |-> "idle"]
NoBody == <<>>
NoTale == [title |-> Str(0, 0), content |-> Str(0, 0), ageRange |-> "",
           topic |-> "", author |-> Undefined, isPublic |-> FALSE,
           likes |-> 0, likedBy |-> <<>>, v |-> 0]
SoloNone == [phase |-> "none", user |-> Undefined, id |-> 0, before |-> NoTale,
             after |-> NoTale, liked1 |-> FALSE, liked2 |-> FALSE]

Step(op, step, caller, id, status) ==
    [op |-> op, step |-> step, caller |-> caller, id |-> id, status |-> status,
     liked |-> FALSE, likes |-> 0, ids |-> <<>>, body |-> NoBody]

Init ==
    /\ tales = <<>>
    /\ nextId = 1
    /\ pending = [s \in Slots |-> Idle]
    /\ last = Step("init", "done", Undefined, 0, "")
    /\ deleted = {}
    /\ creator = <<>>
    /\ solo = SoloNone

\* ------------------------------------------------------------------------
\* Store primitives (Mongoose model methods)
\* ------------------------------------------------------------------------
Exists(store, id) == id \in DOMAIN store

\* Tale.create: the document with the schema defaults (likes 0, likedBy [])
NewDoc(fields) ==
    [title |-> CastPath("title", fields.title),
     content |-> CastPath("content", fields.content),
     ageRange |-> fields.ageRange, topic |-> fields.topic,
     author |-> fields.author, isPublic |-> fields.isPublic,
     likes |-> 0, likedBy |-> <<>>, v |-> 0]

InsertOne(store, id, doc) ==
    [i \in DOMAIN store \cup {id} |-> IF i = id THEN doc ELSE store[i]]

\* mutant: a delete that reports success and removes nothing
DeleteNothing(store, id) == store

\* document.deleteOne(): removes the record with this _id, if any
DeleteOne(store, id) == [i \in DOMAIN store \ {id} |-> store[i]]

\* $set of the schema paths of the update document, setters applied
ApplyPatch(doc, patch) ==
    [f \in DOMAIN doc |->
        IF f \in DOMAIN patch \cap SchemaPaths
        THEN CastPath(f, patch[f]) ELSE doc[f]]

\* findByIdAndUpdate without upsert: a missing record stays missing
FindByIdAndUpdate(store, id, patch) ==
    IF Exists(store, id)
    THEN [store EXCEPT ![id] = ApplyPatch(@, patch)]
    ELSE store

\* ------------------------------------------------------------------------
\* Routing (routes/tales.js) and the auth middleware
\* ------------------------------------------------------------------------
\* the handlers mounted behind protect
ProtectedRoutes == {"generateTale", "createTale", "getUserTales", "updateTale",
                    "deleteTale", "likeTale", "checkLikeStatus"}

\* protect: lets an authenticated caller through with req.user set to it
Protect(caller) == IF caller \in Users THEN caller ELSE Undefined

\* req.user as the handler of a route sees it
ReqUser(route, caller) ==
    IF route \in ProtectedRoutes THEN Protect(caller) ELSE Undefined

\* ------------------------------------------------------------------------
\* Checks made by the handlers
\* ------------------------------------------------------------------------
\* mutant: the ownership check left out
IsOwnerAnyone(tale, user) == TRUE

\* tale.author.toString() !== req.user._id.toString(), negated
IsOwner(tale, user) == tale.author = user

\* const isAuthor = req.user && req.user._id.toString() === tale.author._id.toString()
IsAuthor(tale, user) == user # Undefined /\ user = tale.author

\* getTaleById: !(!tale.isPublic && !isAuthor)
CanRead(tale, user) == tale.isPublic \/ IsAuthor(tale, user)

\* mutant: the visibility check of likeTale left out
CanLikePrivate(tale) == TRUE

\* likeTale: !(!tale.isPublic)
CanLike(tale) == tale.isPublic

\* the fields createTale hands to Tale.create
CreateFields(user, body) ==
    [f \in ({"title", "content", "ageRange", "topic"} \cap DOMAIN body)
           \cup {"author", "isPublic"} |->
        CASE f = "author"   -> user
          [] f = "isPublic" -> ("isPublic" \in DOMAIN body /\ body.isPublic)
          [] OTHER          -> body[f]]

\* ids of the tales that satisfy a filter, newest first (ids grow with
\* createdAt)
RECURSIVE NewestFirst(_)
NewestFirst(ids) ==
    IF ids = {} THEN <<>>
    ELSE LET m == CHOOSE i \in ids : \A j \in ids : j <= i
         IN <<m>> \o NewestFirst(ids \ {m})

PublicTales(store) == NewestFirst({i \in DOMAIN store : store[i].isPublic})
UserTales(store, user) == NewestFirst({i \in DOMAIN store : store[i].author = user})

\* ------------------------------------------------------------------------
\* Bookkeeping shared by the actions
\* ------------------------------------------------------------------------
AllIdle == \A s \in Slots : pending[s] = Idle
HasFree == \E s \in Slots : pending[s] = Idle
FreeSlot == CHOOSE s \in Slots : pending[s] = Idle /\ \A t \in Slots : t < s => pending[t] # Idle

\* the handler suspended in slot has finished
\* room for one more suspended updateTale or deleteTale
OwnerOpFree ==
    Cardinality({s \in Slots : pending[s].op \in {"updateTale", "deleteTale"}}) < MaxOwnerOps
Done(slot) == [pending EXCEPT ![slot] = Idle]

Keep == UNCHANGED <<tales, nextId, pending, deleted, creator>> /\ solo' = SoloNone

\* ------------------------------------------------------------------------
\* Handlers (controllers/tales.js)
\* ------------------------------------------------------------------------
\* a request without credentials to a protected route ends in protect
ProtectDenied ==
    /\ \A route \in ProtectedRoutes : ReqUser(route, Anonymous) = Undefined
    /\ last' = Step("protect", "done", Anonymous, 0, "unauthenticated")
    /\ Keep

CreateTale(caller, body) ==
    LET user == ReqUser("createTale", caller)
        fields == CreateFields(user, body)
    IN /\ user # Undefined
       /\ nextId <= MaxTales
       /\ IF ValidateDoc(fields)
          THEN /\ tales' = InsertOne(tales, nextId, NewDoc(fields))
               /\ creator' = InsertOne(creator, nextId, user)
               /\ nextId' = nextId + 1
               /\ last' = [Step("createTale", "done", caller, nextId, "201")
                              EXCEPT !.body = body]
          ELSE /\ UNCHANGED <<tales, creator, nextId>>
               /\ last' = [Step("createTale", "done", caller, 0, "next(ValidationError)")
                              EXCEPT !.body = body]
       /\ UNCHANGED <<pending, deleted>>
       /\ solo' = SoloNone

GetPublicTales ==
    /\ last' = [Step("getPublicTales", "done", Undefined, 0, "200")
                   EXCEPT !.ids = PublicTales(tales)]
    /\ Keep

GetUserTales(caller) ==
    LET user == ReqUser("getUserTales", caller)
    IN /\ user # Undefined
       /\ last' = [Step("getUserTales", "done", caller, 0, "200")
                      EXCEPT !.ids = UserTales(tales, user)]
       /\ Keep

GetTaleById(caller, id) ==
    LET user == ReqUser("getTaleById", caller)
    IN /\ last' = Step("getTaleById", "done", caller, id,
                       IF ~Exists(tales, id) THEN "404"
                       ELSE IF ~CanRead(tales[id], user) THEN "403"
                       ELSE "200")
       /\ Keep

CheckLikeStatus(caller, id) ==
    LET user == ReqUser("checkLikeStatus", caller)
    IN /\ user # Undefined
       /\ last' = IF ~Exists(tales, id)
                  THEN Step("checkLikeStatus", "done", caller, id, "404")
                  ELSE [Step("checkLikeStatus", "done", caller, id, "200")
                           EXCEPT !.liked = user \in SeqToSet(tales[id].likedBy)]
       /\ Keep

\* updateTale up to its second await: findById and the ownership check
UpdateTaleFind(caller, id, body) ==
    LET user == ReqUser("updateTale", caller)
    IN /\ user # Undefined
       /\ IF ~Exists(tales, id)
          THEN /\ last' = Step("updateTale", "find", caller, id, "404")
               /\ UNCHANGED pending
          ELSE IF ~IsOwner(tales[id], user)
          THEN /\ last' = Step("updateTale", "find", caller, id, "403")
               /\ UNCHANGED pending
          ELSE /\ HasFree /\ OwnerOpFree
               /\ pending' = [pending EXCEPT ![FreeSlot] =
                                 [op |-> "updateTale", id |-> id, body |-> body]]
               /\ last' = Step("updateTale", "find", caller, id, "pending")
       /\ UNCHANGED <<tales, nextId, deleted, creator>>
       /\ solo' = SoloNone

\* updateTale from findByIdAndUpdate(id, req.body, {new, runValidators}) on
UpdateTaleWrite(s) ==
    LET p == pending[s]
    IN /\ p.op = "updateTale"
       /\ IF UpdateValidators(p.body)
          THEN /\ tales' = FindByIdAndUpdate(tales, p.id, p.body)
               /\ pending' = Done(s)
               /\ last' = Step("updateTale", "write", Undefined, p.id, "200")
          ELSE /\ UNCHANGED tales
               /\ pending' = Done(s)
               /\ last' = Step("updateTale", "write", Undefined, p.id, "next(ValidationError)")
       /\ UNCHANGED <<nextId, deleted, creator>>
       /\ solo' = SoloNone

\* deleteTale up to its second await
DeleteTaleFind(caller, id) ==
    LET user == ReqUser("deleteTale", caller)
    IN /\ user # Undefined
       /\ IF ~Exists(tales, id)
          THEN /\ last' = Step("deleteTale", "find", caller, id, "404")
               /\ UNCHANGED pending
          ELSE IF ~IsOwner(tales[id], user)
          THEN /\ last' = Step("deleteTale", "find", caller, id, "403")
               /\ UNCHANGED pending
          ELSE /\ HasFree /\ OwnerOpFree
               /\ pending' = [pending EXCEPT ![FreeSlot] =
                                 [op |-> "deleteTale", id |-> id]]
               /\ last' = Step("deleteTale", "find", caller, id, "pending")
       /\ UNCHANGED <<tales, nextId, deleted, creator>>
       /\ solo' = SoloNone

\* deleteTale from tale.deleteOne() on
DeleteTaleRemove(s) ==
    LET p == pending[s]
    IN /\ p.op = "deleteTale"
       /\ tales' = DeleteOne(tales, p.id)
       /\ deleted' = deleted \cup {p.id}
       /\ pending' = Done(s)
       /\ last' = Step("deleteTale", "write", Undefined, p.id, "200")
       /\ UNCHANGED <<nextId, creator>>
       /\ solo' = SoloNone

\* the paths of the loaded document that likeTale goes on to use
Loaded(doc) == [likes |-> doc.likes, likedBy |-> doc.likedBy, v |-> doc.v]

\* likeTale up to tale.save(): findById and the visibility check
LikeTaleFind(caller, id) ==
    LET user == ReqUser("likeTale", caller)
    IN /\ user # Undefined
       /\ IF ~Exists(tales, id)
          THEN /\ last' = Step("likeTale", "find", caller, id, "404")
               /\ UNCHANGED pending
               /\ solo' = SoloNone
          ELSE IF ~CanLike(tales[id])
          THEN /\ last' = Step("likeTale", "find", caller, id, "403")
               /\ UNCHANGED pending
               /\ solo' = SoloNone
          ELSE /\ HasFree
               /\ tales[id].v + Cardinality({s \in Slots : pending[s].op = "likeTale" /\ pending[s].id = id}) < MaxLikeSaves
               /\ pending' = [pending EXCEPT ![FreeSlot] =
                                 [op |-> "likeTale", user |-> user, id |-> id,
                                  tale |-> Loaded(tales[id])]]
               /\ last' = Step("likeTale", "find", caller, id, "pending")
               /\ solo' = IF ~AllIdle THEN SoloNone
                          ELSE IF solo.phase = "saved1" /\ solo.user = user /\ solo.id = id
                          THEN [solo EXCEPT !.phase = "find2"]
                          ELSE [SoloNone EXCEPT !.phase = "find1", !.user = user,
                                                !.id = id, !.before = tales[id]]
       /\ UNCHANGED <<tales, nextId, deleted, creator>>

\* the in-memory document of likeTale when it calls save()
Liked(tale, user) ==
    [tale EXCEPT !.likes = @ + 1, !.likedBy = Append(@, user)]
Unliked(tale, userIndex) ==
    [tale EXCEPT !.likes = Max(0, @ - 1), !.likedBy = RemoveAt(@, userIndex)]

\* save() after push: {$set: {likes}, $push: {likedBy}, $inc: {__v}} where {_id}
SavePushMatches(store, id, doc) == Exists(store, id)
SavePush(store, id, doc, user) ==
    [store EXCEPT ![id] = [@ EXCEPT !.likes = doc.likes,
                                    !.likedBy = Append(@, user),
                                    !.v = @ + 1]]

\* save() after splice: {$set: {likes, likedBy}, $inc: {__v}} where {_id, __v}
SaveSpliceMatches(store, id, doc) == Exists(store, id) /\ store[id].v = doc.v
SaveSplice(store, id, doc) ==
    [store EXCEPT ![id] = [@ EXCEPT !.likes = doc.likes,
                                    !.likedBy = doc.likedBy,
                                    !.v = @ + 1]]

\* likeTale from tale.save() on
LikeTaleSave(s) ==
    LET p == pending[s]
        userIndex == IndexOf(p.tale.likedBy, p.user)
        doc == IF userIndex = 0 THEN Liked(p.tale, p.user) ELSE Unliked(p.tale, userIndex)
        matches == IF userIndex = 0 THEN SavePushMatches(tales, p.id, doc)
                   ELSE SaveSpliceMatches(tales, p.id, doc)
        error == IF userIndex = 0 THEN "next(DocumentNotFoundError)" ELSE "next(VersionError)"
    IN /\ p.op = "likeTale"
       /\ IF matches
          THEN /\ tales' = IF userIndex = 0 THEN SavePush(tales, p.id, doc, p.user)
                           ELSE SaveSplice(tales, p.id, doc)
               /\ pending' = Done(s)
               /\ last' = [Step("likeTale", "write", p.user, p.id, "200")
                              EXCEPT !.liked = (userIndex = 0), !.likes = doc.likes]
               /\ solo' = IF solo.phase = "find1"
                          THEN [solo EXCEPT !.phase = "saved1", !.liked1 = (userIndex = 0)]
                          ELSE IF solo.phase = "find2"
                          THEN [solo EXCEPT !.phase = "saved2", !.liked2 = (userIndex = 0),
                                            !.after = tales'[p.id]]
                          ELSE SoloNone
          ELSE /\ UNCHANGED tales
               /\ pending' = Done(s)
               /\ last' = Step("likeTale", "write", p.user, p.id, error)
               /\ solo' = SoloNone
       /\ UNCHANGED <<nextId, deleted, creator>>

\* ------------------------------------------------------------------------
\* Specification
\* ------------------------------------------------------------------------
Next ==
    \/ ProtectDenied
    \/ \E c \in Callers, b \in CreateBodies : CreateTale(c, b)
    \/ GetPublicTales
    \/ \E c \in Callers : GetUserTales(c)
    \/ \E c \in Callers, id \in TaleIds : GetTaleById(c, id)
    \/ \E c \in Callers, id \in TaleIds : CheckLikeStatus(c, id)
    \/ \E c \in Callers, id \in TaleIds, b \in Patches : UpdateTaleFind(c, id, b)
    \/ \E s \in Slots : UpdateTaleWrite(s)
    \/ \E c \in Callers, id \in TaleIds : DeleteTaleFind(c, id)
    \/ \E s \in Slots : DeleteTaleRemove(s)
    \/ \E c \in Callers, id \in TaleIds : LikeTaleFind(c, id)
    \/ \E s \in Slots : LikeTaleSave(s)

Spec == Init /\ [][Next]_vars

\* ------------------------------------------------------------------------
\* Properties
\* ------------------------------------------------------------------------
LikedBySet(doc) == SeqToSet(doc.likedBy)

\* C1: every stored tale has likes equal to the number of distinct
\* identities in likedBy.
C1_LikesEqualsLikedBy ==
    \A id \in DOMAIN tales :
        tales[id].likes = Cardinality(LikedBySet(tales[id]))

\* cur is what one toggle by user makes of old: the user's membership
\* flipped, everybody else's kept, likes moved by one (floored at 0)
ToggledBy(old, cur, user) ==
    IF user \in LikedBySet(old)
    THEN /\ LikedBySet(cur) = LikedBySet(old) \ {user}
         /\ cur.likes = Max(0, old.likes - 1)
    ELSE /\ LikedBySet(cur) = LikedBySet(old) \cup {user}
         /\ cur.likes = old.likes + 1

\* C2: when the toggle of one user saves after exactly one toggle of a
\* different user has been stored since it read the tale, the save succeeds
\* and leaves the record as if the two toggles had run one after the other.
C2_ConcurrentTogglesKeepBoth ==
    [][ \A s \in Slots :
          ( /\ pending[s].op = "likeTale"
            /\ pending'[s] = Idle
            /\ pending[s].id \in DOMAIN tales
            /\ tales[pending[s].id].v = pending[s].tale.v + 1
            /\ \E b \in Users \ {pending[s].user} :
                  ToggledBy(pending[s].tale, tales[pending[s].id], b) )
          => ( /\ last'.status = "200"
               /\ pending[s].id \in DOMAIN tales'
               /\ ToggledBy(tales[pending[s].id], tales'[pending[s].id],
                            pending[s].user) ) ]_vars

\* C3: getById on an existing tale answers 200 exactly when the tale is
\* public or the requester is its author, and 403 otherwise.
C3_ReadableIffPublicOrAuthor ==
    (last.op = "getTaleById" /\ last.id \in DOMAIN tales)
    => /\ last.status \in {"200", "403"}
       /\ last.status = "200"
            <=> (tales[last.id].isPublic \/ last.caller = tales[last.id].author)

\* C4: update and delete by a requester who is not the author of the
\* existing tale answer 403 and leave the store as it was, with no write
\* left to come.
C4_OnlyAuthorMutates ==
    [][ ( /\ last'.op \in {"updateTale", "deleteTale"}
          /\ last'.step = "find"
          /\ last'.id \in DOMAIN tales
          /\ last'.caller # tales[last'.id].author )
        => ( /\ last'.status = "403"
             /\ tales' = tales
             /\ pending' = pending ) ]_vars

C4_Witness ==
    /\ last.op = "updateTale" /\ last.step = "find" /\ last.status = "403"
    /\ last.id \in DOMAIN tales
    /\ last.caller \in Users \ {tales[last.id].author}

\* C5: the author of a stored tale is the identity that created it.
C5_AuthorImmutable ==
    \A id \in DOMAIN tales : tales[id].author = creator[id]

\* C6: two toggles in a row by one user on one public tale, with nothing in
\* between, give back the likes count and the user's membership in likedBy,
\* and report opposite liked values.
C6_DoubleToggleRestores ==
    solo.phase = "saved2"
    => /\ solo.after.likes = solo.before.likes
       /\ solo.user \in LikedBySet(solo.after) <=> solo.user \in LikedBySet(solo.before)
       /\ solo.liked1 # solo.liked2

\* C7: toggleLike answers 404 on an absent id and 403 on a private tale,
\* whoever asks, and in both cases writes nothing and leaves no write to come.
C7_PrivateNotLiked ==
    [][ ( last'.op = "likeTale" /\ last'.step = "find" )
        => ( /\ last'.id \notin DOMAIN tales
                  => (last'.status = "404" /\ tales' = tales /\ pending' = pending)
             /\ (last'.id \in DOMAIN tales /\ ~tales[last'.id].isPublic)
                  => (last'.status = "403" /\ tales' = tales /\ pending' = pending) ) ]_vars

C7_Witness ==
    /\ last.op = "likeTale" /\ last.step = "find" /\ last.status = "403"
    /\ last.id \in DOMAIN tales
    /\ last.caller = tales[last.id].author
    /\ tales[last.id].likes > 0

\* the steps with which a request on one tale starts
Starts(l) ==
    \/ l.op \in {"getTaleById", "checkLikeStatus"}
    \/ l.op \in {"updateTale", "deleteTale", "likeTale"} /\ l.step = "find"

\* C8: a deleted tale stays deleted: no step brings its record back, every
\* request on its id that starts after the delete answers 404, and no list
\* holds it.
C8_DeletePermanent ==
    [][ /\ deleted' \cap DOMAIN tales' = {}
        /\ (Starts(last') /\ last'.id \in deleted) => last'.status = "404"
        /\ last'.op \in {"getPublicTales", "getUserTales"}
             => SeqToSet(last'.ids) \cap deleted' = {} ]_vars

C8_Witness ==
    /\ last.op = "likeTale" /\ last.step = "write"
    /\ last.id \in deleted
    /\ last.id \notin DOMAIN tales

\* what the claim calls invalid, read off the request body
MissingRequired(body) ==
    \E f \in {"title", "content", "ageRange", "topic"} : f \notin DOMAIN body
OutsideEnums(body) ==
    \/ "topic" \in DOMAIN body /\ body.topic \notin TopicEnum
    \/ "ageRange" \in DOMAIN body /\ body.ageRange \notin AgeRangeEnum
TitleTooLong(body) ==
    "title" \in DOMAIN body /\ body.title.core > TitleMaxLength

\* C9: a create with a missing required field or a topic or ageRange outside
\* the enums fails validation and stores nothing; an update whose patch
\* carries a topic or ageRange outside the enums, or a title of more than 100
\* characters (blanks at the ends not counted), fails validation
\* and changes nothing; so every stored tale has its ageRange and topic in
\* the enums.
C9_ValidationGuardsWrites ==
    [][ /\ ( /\ last'.op = "createTale"
             /\ MissingRequired(last'.body) \/ OutsideEnums(last'.body) )
           => (last'.status = "next(ValidationError)" /\ tales' = tales)
        /\ \A s \in Slots :
             ( /\ pending[s].op = "updateTale"
               /\ pending'[s] = Idle
               /\ OutsideEnums(pending[s].body) \/ TitleTooLong(pending[s].body) )
             => (last'.status = "next(ValidationError)" /\ tales' = tales)
        /\ \A id \in DOMAIN tales' :
             /\ tales'[id].ageRange \in AgeRangeEnum
             /\ tales'[id].topic \in TopicEnum ]_vars

C9_Witness ==
    /\ last.op = "updateTale" /\ last.step = "write"
    /\ last.status = "next(ValidationError)"
    /\ last.id \in DOMAIN tales
    /\ tales[last.id].topic \in TopicEnum

\* C10: no identity occurs twice in the likedBy of a stored tale.
C10_LikedByIsSet ==
    \A id \in DOMAIN tales :
        Cardinality(LikedBySet(tales[id])) = Len(tales[id].likedBy)

====
